---- MODULE Spec2Model ----
(***************************************************************************)
(* Model of BatchInserter (models.py): a buffer of pending rows that is    *)
(* bulk-inserted into the store, inside one atomic scope, whenever it      *)
(* reaches batch_size rows or when flush is called, with optional padding  *)
(* of the rows to the union of their field names (_pad_data).              *)
(*                                                                         *)
(* A row (a Python dict) is a function from a set of field names to        *)
(* values.  The store is the sequence of committed bulk inserts, each one  *)
(* the sequence of rows it wrote.                                          *)
(***************************************************************************)
EXTENDS Integers, Sequences, FiniteSets, TLC

\* ---------------------------------------------------------------- bounds
MaxSubmit == 3      \* insert calls per behaviour
MaxBatch == 3       \* largest batch_size given to the constructor
MaxPadLen == 3      \* longest batch given to _pad_data on its own
MaxFlush == 2       \* flush calls made by the caller per behaviour
MaxThreadSubmit == 2  \* insert calls of the two callers together
MaxThreadFlush == 1   \* flush calls of the two callers together
MaxMultiSubmit == 3   \* insert calls on the two inserters together
MaxMultiFlush == 1    \* flush calls on the two inserters together
MaxMultiBatch == 2    \* largest batch_size of the two inserters

\* ---------------------------------------------------------------- rows
None == "None"
Fields == {"a", "b"}
Values == {None, "1"}
Rows == UNION {[S -> Values] : S \in SUBSET Fields}
\* the rows given to insert: three shapes, a value that is already None
InsertRows == {("a" :> "1"), ("b" :> None), ("a" :> None @@ "b" :> "1")}
BatchSizes == (0 - 1)..MaxBatch

RECURSIVE SeqsUpTo(_, _)
SeqsUpTo(S, n) ==
    IF n = 0 THEN {<<>>}
    ELSE LET shorter == SeqsUpTo(S, n - 1)
         IN  shorter \cup {Append(s, x) : s \in {t \in shorter : Len(t) = n - 1}, x \in S}

VARIABLES
    rows,         \* self.rows: the buffer of pending rows
    batch_size,   \* self.batch_size
    pad_data,     \* self.pad_data (fill_missing_fields)
    store,        \* committed bulk inserts of ModelType, oldest first
    submitted,    \* history: every row given to insert, as given
    autoFlushes,  \* history: flushes called by insert
    storeFailed,  \* history: some bulk insert has failed
    autoFailed,   \* history: some flush called by insert has failed
    flushCalls,   \* history: number of flush calls made by the caller
    prev,         \* history: operation and result of the call before the last
    last,         \* history: the last call, what it started from and what it did
    pc,           \* where each caller is inside insert/flush ("idle": in no call)
    locking       \* the callers take a lock around every insert and flush call

vars == <<rows, batch_size, pad_data, store, submitted, autoFlushes,
          storeFailed, autoFailed, flushCalls, prev, last, pc, locking>>

\* ---------------------------------------------------------------- _pad_data
\* field_names = field_names.union(row.keys()) over the rows, first to last
RECURSIVE FieldNames(_)
FieldNames(rs) ==
    IF rs = <<>> THEN {}
    ELSE FieldNames(SubSeq(rs, 1, Len(rs) - 1)) \cup DOMAIN rs[Len(rs)]

\* filling the missing fields with the empty string
DefaultDataEmptyString(rs) == [f \in FieldNames(rs) |-> ""]

\* default_data = {field_name: None for field_name in field_names}
DefaultData(rs) == [f \in FieldNames(rs) |-> None]

UpdateDefaultWins(d, r) ==
    [f \in (DOMAIN d) \cup (DOMAIN r) |-> IF f \in DOMAIN d THEN d[f] ELSE r[f]]

\* updated_data = copy.copy(d); updated_data.update(r)
Update(d, r) ==
    [f \in (DOMAIN d) \cup (DOMAIN r) |-> IF f \in DOMAIN r THEN r[f] ELSE d[f]]

\* padding each row against the rows seen so far only
PadDataIncremental(rs) ==
    [i \in 1..Len(rs) |-> Update(DefaultData(SubSeq(rs, 1, i)), rs[i])]

\* padding the rows while walking them last to first
PadDataReversed(rs) ==
    [i \in 1..Len(rs) |-> Update(DefaultData(rs), rs[Len(rs) + 1 - i])]

\* rows[i] = updated_data, for every i
PadData(rs) ==
    [i \in 1..Len(rs) |-> Update(DefaultData(rs), rs[i])]

\* ---------------------------------------------------------------- the store
\* "they all need to have the same fields": what Peewee's insert_many accepts
Uniform(batch) ==
    \A i, j \in 1..Len(batch) : DOMAIN batch[i] = DOMAIN batch[j]

\* Outcomes of ModelType.insert_many(batch).execute(): it succeeds having
\* written every row, or it raises after having written some of them.
\* A batch of rows with different fields always raises.
StoreOutcomes(batch) ==
    (IF Uniform(batch) THEN {[ok |-> TRUE, written |-> Len(batch)]} ELSE {})
      \cup {[ok |-> FALSE, written |-> k] :
               k \in 0..(IF Len(batch) = 0 THEN 0 ELSE Len(batch) - 1)}

AtomicNoRollback(st, batch, o) ==
    IF o.ok THEN Append(st, batch)
    ELSE IF o.written > 0 THEN Append(st, SubSeq(batch, 1, o.written)) ELSE st

\* with db_proxy.atomic(): commit when the block ends, roll everything the
\* block wrote back when it raises
Atomic(st, batch, o) ==
    IF o.ok THEN Append(st, batch) ELSE st

\* ---------------------------------------------------------------- flush
FlushRowsAlwaysPad(rs, pad) == PadData(rs)

\* if self.pad_data: self._pad_data(self.rows)
FlushRows(rs, pad) == IF pad THEN PadData(rs) ELSE rs

BufferAlwaysCleared(padded, ok) == <<>>

BufferNeverCleared(padded, ok) == padded

\* self.rows = [] is reached only when the atomic block did not raise
BufferAfterFlush(padded, ok) == IF ok THEN <<>> ELSE padded

ShouldFlushStrict(n, bs) == n > bs

ShouldFlushInverted(n, bs) == n <= bs

ShouldFlushEqual(n, bs) == n = bs

\* if len(self.rows) >= self.batch_size
ShouldFlush(n, bs) == n >= bs

\* a call record: the operation, whether it returned (ok) or raised, whether
\* insert called flush (auto), the buffer and store the call started from, the
\* buffer flush started from (pending), the batch given to insert_many
\* (handed), the atomic scopes opened (txns), the insert_many executions (bulk)
\* and the rows the last one wrote before it ended
NoCall == [op |-> "none", ok |-> TRUE, auto |-> FALSE, rowsBefore |-> <<>>,
           storeBefore |-> <<>>, pending |-> <<>>, handed |-> <<>>,
           txns |-> 0, bulk |-> 0, written |-> 0]

\* the callers of one inserter, and a caller that is in no call
Callers == {1, 2}
Idle == [at |-> "idle"]

CallOkSwallowed(o) == TRUE

\* flush has no try/except: the call returns iff insert_many did not raise
CallOk(o) == o.ok

\* the body of flush on a buffer rs, with store outcome o
FlushEffect(op, rs, o, auto) ==
    LET padded == FlushRows(rs, pad_data)
    IN  /\ rows' = BufferAfterFlush(padded, o.ok)
        /\ store' = Atomic(store, padded, o)
        /\ storeFailed' = (storeFailed \/ ~o.ok)
        /\ autoFailed' = (autoFailed \/ (auto /\ ~o.ok))
        /\ last' = [op |-> op, ok |-> CallOk(o), auto |-> auto,
                    rowsBefore |-> rows, storeBefore |-> store, pending |-> rs,
                    handed |-> padded, txns |-> 1, bulk |-> 1,
                    written |-> o.written]

Init ==
    /\ rows = <<>>
    /\ batch_size \in BatchSizes
    /\ pad_data \in BOOLEAN
    /\ store = <<>>
    /\ submitted = <<>>
    /\ autoFlushes = 0
    /\ storeFailed = FALSE
    /\ autoFailed = FALSE
    /\ pc = [c \in Callers |-> Idle]
    /\ locking = TRUE
    /\ flushCalls = 0
    /\ prev = [op |-> "none", ok |-> TRUE]
    /\ last = NoCall

\* BatchInserter.insert(row)
Insert(row) ==
    /\ Len(submitted) < MaxSubmit
    /\ submitted' = Append(submitted, row)
    /\ prev' = [op |-> last.op, ok |-> last.ok]
    /\ LET appended == Append(rows, row)
       IN  IF ShouldFlush(Len(appended), batch_size)
           THEN /\ \E o \in StoreOutcomes(FlushRows(appended, pad_data)) :
                       FlushEffect("insert", appended, o, TRUE)
                /\ autoFlushes' = autoFlushes + 1
           ELSE /\ rows' = appended
                /\ last' = [NoCall EXCEPT !.op = "insert", !.rowsBefore = rows,
                                          !.storeBefore = store]
                /\ UNCHANGED <<store, storeFailed, autoFailed, autoFlushes>>
    /\ UNCHANGED <<batch_size, pad_data, flushCalls, pc, locking>>

\* BatchInserter.flush(), called by the caller
Flush ==
    /\ flushCalls < MaxFlush
    /\ \E o \in StoreOutcomes(FlushRows(rows, pad_data)) :
            FlushEffect("flush", rows, o, FALSE)
    /\ flushCalls' = flushCalls + 1
    /\ prev' = [op |-> last.op, ok |-> last.ok]
    /\ UNCHANGED <<batch_size, pad_data, submitted, autoFlushes, pc, locking>>

Next ==
    \/ \E row \in InsertRows : Insert(row)
    \/ Flush

Spec == Init /\ [][Next]_vars

\* ---------------------------------------------------------------- _pad_data alone
\* Any buffer of at most MaxPadLen rows, to which _pad_data is applied in place.
PadInit ==
    /\ rows \in SeqsUpTo(Rows, MaxPadLen)
    /\ submitted = rows
    /\ batch_size = MaxBatch
    /\ pad_data = TRUE
    /\ store = <<>>
    /\ autoFlushes = 0
    /\ storeFailed = FALSE
    /\ autoFailed = FALSE
    /\ pc = [c \in Callers |-> Idle]
    /\ locking = TRUE
    /\ flushCalls = 0
    /\ prev = [op |-> "none", ok |-> TRUE]
    /\ last = NoCall

\* self._pad_data(self.rows)
PadApply ==
    /\ rows' = PadData(rows)
    /\ prev' = [op |-> last.op, ok |-> last.ok]
    /\ last' = [NoCall EXCEPT !.op = "_pad_data", !.rowsBefore = rows]
    /\ UNCHANGED <<batch_size, pad_data, store, submitted, autoFlushes,
                   storeFailed, autoFailed, flushCalls, pc, locking>>

PadNext == PadApply

PadSpec == PadInit /\ [][PadNext]_vars

\* ---------------------------------------------------------------- two callers, one inserter
\* Two callers run insert and flush on the same inserter, one statement at a
\* time: append (line 48), length check (49), padding (53-54), bulk insert
\* (55-56), buffer clear (57).  With locking, a caller starts a call only when
\* no other caller is inside one.
ThreadInit ==
    /\ rows = <<>>
    /\ batch_size \in 1..MaxBatch
    /\ pad_data \in BOOLEAN
    /\ store = <<>>
    /\ submitted = <<>>
    /\ autoFlushes = 0
    /\ storeFailed = FALSE
    /\ autoFailed = FALSE
    /\ pc = [c \in Callers |-> Idle]
    /\ locking \in BOOLEAN
    /\ flushCalls = 0
    /\ prev = [op |-> "none", ok |-> TRUE]
    /\ last = NoCall

\* the lock the callers put around every insert and flush call
MayStep(c) == locking => \A d \in Callers \ {c} : pc[d].at = "idle"

Goto(c, label) == pc' = [pc EXCEPT ![c] = [at |-> label]]

\* insert: self.rows.append(row)
TAppend(c, row) ==
    /\ pc[c].at = "idle" /\ MayStep(c)
    /\ Len(submitted) < MaxThreadSubmit
    /\ rows' = Append(rows, row)
    /\ submitted' = Append(submitted, row)
    /\ Goto(c, "check")
    /\ UNCHANGED <<batch_size, pad_data, store, autoFlushes, storeFailed,
                   autoFailed, flushCalls, prev, last, locking>>

\* insert: if len(self.rows) >= self.batch_size: self.flush()
TCheck(c) ==
    /\ pc[c].at = "check"
    /\ IF ShouldFlush(Len(rows), batch_size)
       THEN Goto(c, "pad") /\ autoFlushes' = autoFlushes + 1
       ELSE Goto(c, "idle") /\ UNCHANGED autoFlushes
    /\ UNCHANGED <<rows, batch_size, pad_data, store, submitted, storeFailed,
                   autoFailed, flushCalls, prev, last, locking>>

\* the caller calls flush
TCallFlush(c) ==
    /\ pc[c].at = "idle" /\ MayStep(c)
    /\ flushCalls < MaxThreadFlush
    /\ flushCalls' = flushCalls + 1
    /\ Goto(c, "pad")
    /\ UNCHANGED <<rows, batch_size, pad_data, store, submitted, autoFlushes,
                   storeFailed, autoFailed, prev, last, locking>>

\* flush: if self.pad_data: self._pad_data(self.rows)
TPad(c) ==
    /\ pc[c].at = "pad"
    /\ rows' = FlushRows(rows, pad_data)
    /\ Goto(c, "bulk")
    /\ UNCHANGED <<batch_size, pad_data, store, submitted, autoFlushes,
                   storeFailed, autoFailed, flushCalls, prev, last, locking>>

\* flush: with db_proxy.atomic(): insert_many(self.rows).execute()
TBulk(c) ==
    /\ pc[c].at = "bulk"
    /\ \E o \in StoreOutcomes(rows) :
          /\ store' = Atomic(store, rows, o)
          /\ storeFailed' = (storeFailed \/ ~o.ok)
          /\ IF CallOk(o) THEN Goto(c, "clear") ELSE Goto(c, "idle")
    /\ UNCHANGED <<rows, batch_size, pad_data, submitted, autoFlushes,
                   autoFailed, flushCalls, prev, last, locking>>

\* flush: self.rows = []
TClear(c) ==
    /\ pc[c].at = "clear"
    /\ rows' = BufferAfterFlush(rows, TRUE)
    /\ Goto(c, "idle")
    /\ UNCHANGED <<batch_size, pad_data, store, submitted, autoFlushes,
                   storeFailed, autoFailed, flushCalls, prev, last, locking>>

ThreadNext ==
    \E c \in Callers :
        \/ \E row \in InsertRows : TAppend(c, row)
        \/ TCheck(c)
        \/ TCallFlush(c)
        \/ TPad(c)
        \/ TBulk(c)
        \/ TClear(c)

ThreadSpec == ThreadInit /\ [][ThreadNext]_vars

\* ---------------------------------------------------------------- two inserters, one store
\* Two BatchInserter objects, each with its own ModelType, write through the
\* one db_proxy.  Here rows, batch_size, pad_data and submitted hold one value
\* per inserter, and a committed row carries the inserter (the table) it
\* belongs to.  Calls of the two inserters interleave call by call.
Instances == {1, 2}
\* the rows given to the two inserters: two shapes
MultiRows == {("a" :> "1"), ("b" :> None)}

Tagged(i, batch) == [k \in 1..Len(batch) |-> [by |-> i, row |-> batch[k]]]

SetBufferShared(bufs, i, new) == [j \in DOMAIN bufs |-> new]

\* self.rows is an attribute of the instance, made by __init__
SetBuffer(bufs, i, new) == [bufs EXCEPT ![i] = new]

MultiInit ==
    /\ rows = [i \in Instances |-> <<>>]
    /\ batch_size \in [Instances -> 1..MaxMultiBatch]
    /\ pad_data \in [Instances -> BOOLEAN]
    /\ store = <<>>
    /\ submitted = [i \in Instances |-> <<>>]
    /\ autoFlushes = 0
    /\ storeFailed = FALSE
    /\ autoFailed = FALSE
    /\ pc = [c \in Callers |-> Idle]
    /\ locking = TRUE
    /\ flushCalls = 0
    /\ prev = [op |-> "none", ok |-> TRUE]
    /\ last = [inst |-> 1, op |-> "none", ok |-> TRUE, written |-> 0]

\* the body of flush of inserter i on its buffer rs, with store outcome o
MultiFlushEffect(i, op, rs, o) ==
    LET padded == FlushRows(rs, pad_data[i])
    IN  /\ rows' = SetBuffer(rows, i, BufferAfterFlush(padded, o.ok))
        /\ store' = Atomic(store, Tagged(i, padded), o)
        /\ storeFailed' = (storeFailed \/ ~o.ok)
        /\ last' = [inst |-> i, op |-> op, ok |-> CallOk(o),
                    written |-> o.written]

\* insert(row) on inserter i
MultiInsert(i, row) ==
    /\ Len(submitted[1]) + Len(submitted[2]) < MaxMultiSubmit
    /\ submitted' = [submitted EXCEPT ![i] = Append(@, row)]
    /\ LET appended == Append(rows[i], row)
       IN  IF ShouldFlush(Len(appended), batch_size[i])
           THEN /\ \E o \in StoreOutcomes(FlushRows(appended, pad_data[i])) :
                       MultiFlushEffect(i, "insert", appended, o)
                /\ autoFlushes' = autoFlushes + 1
           ELSE /\ rows' = SetBuffer(rows, i, appended)
                /\ last' = [inst |-> i, op |-> "insert", ok |-> TRUE,
                            written |-> 0]
                /\ UNCHANGED <<store, storeFailed, autoFlushes>>
    /\ UNCHANGED <<batch_size, pad_data, autoFailed, flushCalls, prev, pc,
                   locking>>

\* flush() on inserter i
MultiFlush(i) ==
    /\ flushCalls < MaxMultiFlush
    /\ \E o \in StoreOutcomes(FlushRows(rows[i], pad_data[i])) :
            MultiFlushEffect(i, "flush", rows[i], o)
    /\ flushCalls' = flushCalls + 1
    /\ UNCHANGED <<batch_size, pad_data, submitted, autoFlushes, autoFailed,
                   prev, pc, locking>>

MultiNext ==
    \E i \in Instances :
        \/ \E row \in MultiRows : MultiInsert(i, row)
        \/ MultiFlush(i)

MultiSpec == MultiInit /\ [][MultiNext]_vars

\* ---------------------------------------------------------------- properties
\* the rows of the committed bulk inserts, oldest first
RECURSIVE Flat(_)
Flat(st) == IF st = <<>> THEN <<>> ELSE Flat(SubSeq(st, 1, Len(st) - 1)) \o st[Len(st)]

\* now carries every field of orig with orig's value
Agrees(orig, now) ==
    /\ DOMAIN orig \subseteq DOMAIN now
    /\ \A f \in DOMAIN orig : now[f] = orig[f]

\* the same number of rows, each agreeing with the row at its position
AgreesAll(origs, nows) ==
    /\ Len(nows) = Len(origs)
    /\ \A i \in 1..Len(origs) : Agrees(origs[i], nows[i])

UnionOfFields(rs) == UNION {DOMAIN rs[i] : i \in 1..Len(rs)}

\* nows is origs with every row completed to the union of the fields by None
IsPaddingOf(nows, origs) ==
    /\ AgreesAll(origs, nows)
    /\ \A i \in 1..Len(origs) :
          /\ DOMAIN nows[i] = UnionOfFields(origs)
          /\ \A f \in DOMAIN nows[i] \ DOMAIN origs[i] : nows[i][f] = None

\* the last call ran flush (its own body, or insert called it)
Flushed == last.op = "flush" \/ (last.op = "insert" /\ last.auto)

\* C1: with batch size B >= 1, no store failure and no flush call by the
\* caller, N inserts have triggered floor(N/B) flushes, each one bulk insert,
\* and the buffer holds N mod B rows.
C1_AutoFlushCount ==
    (batch_size >= 1 /\ ~storeFailed /\ flushCalls = 0) =>
        /\ autoFlushes = Len(submitted) \div batch_size
        /\ Len(store) = autoFlushes
        /\ Len(rows) = Len(submitted) % batch_size

C1_Witness ==
    /\ batch_size = 2 /\ ~storeFailed /\ flushCalls = 0
    /\ Len(submitted) = 3 /\ autoFlushes = 1 /\ Len(rows) = 1

\* C2: whatever the store did, the committed rows followed by the buffered
\* rows are the submitted rows, one for one: no submitted row is in neither.
C2_NoRowDropped == AgreesAll(submitted, Flat(store) \o rows)

C2_Witness ==
    /\ storeFailed /\ store # <<>> /\ rows # <<>>
    /\ Flushed /\ ~last.ok /\ Len(submitted) >= 3

\* C3 as stated: a failed flush leaves the buffer exactly as it was when
\* flush started.
C3_Original == (Flushed /\ ~last.ok) => rows = last.pending

\* C3 amended: a failed flush keeps every pending row in order; the rows are
\* exactly the pending ones without normalization, and the pending ones padded
\* with None to the union of their fields with normalization.
C3_BufferRetained ==
    (Flushed /\ ~last.ok) =>
        IF pad_data THEN IsPaddingOf(rows, last.pending) ELSE rows = last.pending

C3_Witness ==
    /\ Flushed /\ ~last.ok /\ pad_data
    /\ Len(rows) >= 2 /\ rows # last.pending

\* C4: a bulk insert that fails after writing part of its batch leaves the
\* store as it was before the flush; the store gains a whole batch or nothing.
C4_FlushAtomic ==
    Flushed =>
        /\ ~last.ok => store = last.storeBefore
        /\ Len(Flat(store)) - Len(Flat(last.storeBefore)) \in {0, Len(last.pending)}
        /\ \A i \in 1..Len(last.storeBefore) : store[i] = last.storeBefore[i]

C4_Witness ==
    /\ Flushed /\ ~last.ok /\ last.written >= 1
    /\ last.written < Len(last.pending) /\ last.storeBefore # <<>>

\* C5: a successful flush right after a failed one commits the retained rows,
\* and then every submitted row is in the store exactly once and the buffer
\* is empty.
C5_RetryCommitsOnce ==
    (~prev.ok /\ last.op = "flush" /\ last.ok) =>
        /\ rows = <<>>
        /\ store # <<>>
        /\ AgreesAll(last.rowsBefore, store[Len(store)])
        /\ AgreesAll(submitted, Flat(store))

C5_Witness ==
    /\ prev.op = "flush" /\ ~prev.ok /\ last.op = "flush" /\ last.ok
    /\ Len(last.rowsBefore) >= 2 /\ rows = <<>>

\* C6: after a flush that returned, the buffer is empty and the rows pending
\* at its start were written by one bulk insert in one atomic scope, as the
\* newest batch of the store.
C6_FlushWritesOneBatch ==
    (Flushed /\ last.ok) =>
        /\ rows = <<>>
        /\ last.bulk = 1 /\ last.txns = 1
        /\ store # <<>>
        /\ SubSeq(store, 1, Len(store) - 1) = last.storeBefore
        /\ AgreesAll(last.pending, store[Len(store)])
        /\ ~pad_data => store[Len(store)] = last.pending

C6_Witness ==
    /\ batch_size = 3 /\ Len(submitted) = 2 /\ flushCalls = 1
    /\ last.op = "flush" /\ last.ok
    /\ Len(store) = 1 /\ Len(store[1]) = 2 /\ rows = <<>>

\* C7 as stated: flush on an empty buffer opens no atomic scope, runs no bulk
\* insert, raises nothing and leaves the buffer empty.
C7_Original ==
    (last.op = "flush" /\ last.rowsBefore = <<>>) =>
        /\ last.txns = 0 /\ last.bulk = 0
        /\ last.ok /\ rows = <<>>

\* C8 as stated: no insert call returns on an inserter whose batch size is
\* below 1.
C8_Original == batch_size < 1 => ~(last.op = "insert" /\ last.ok)

\* C9: after _pad_data every row has the union of the batch's field names,
\* and every field a row did not have is None in it.
C9_PadUnion ==
    last.op = "_pad_data" =>
        /\ Len(rows) = Len(last.rowsBefore)
        /\ \A i \in 1..Len(rows) :
              /\ DOMAIN rows[i] = UnionOfFields(last.rowsBefore)
              /\ \A f \in DOMAIN rows[i] \ DOMAIN last.rowsBefore[i] :
                    rows[i][f] = None

C9_Witness ==
    /\ last.op = "_pad_data" /\ Len(last.rowsBefore) = 3
    /\ DOMAIN last.rowsBefore[1] = {"a"}
    /\ DOMAIN last.rowsBefore[2] = {}
    /\ DOMAIN last.rowsBefore[3] = {"b"}
    /\ rows[1]["b"] = None /\ rows[2]["a"] = None

\* C10: _pad_data keeps the number and order of the rows and the value of
\* every field a row had, a value of None included.
C10_PadPreserves ==
    last.op = "_pad_data" =>
        /\ Len(rows) = Len(last.rowsBefore)
        /\ \A i \in 1..Len(last.rowsBefore) :
              \A f \in DOMAIN last.rowsBefore[i] :
                  /\ f \in DOMAIN rows[i]
                  /\ rows[i][f] = last.rowsBefore[i][f]

C10_Witness ==
    /\ last.op = "_pad_data" /\ Len(last.rowsBefore) = 2
    /\ last.rowsBefore[1] = ("a" :> None)
    /\ last.rowsBefore[2] = ("a" :> "1" @@ "b" :> "1")
    /\ rows[1] = ("a" :> None @@ "b" :> None)
    /\ rows[2] = last.rowsBefore[2]

\* every row has the same field names
SameFields(rs) == \A i, j \in 1..Len(rs) : DOMAIN rs[i] = DOMAIN rs[j]

\* C11: with normalization, the batch given to the store is the pending rows
\* (retained ones included), each completed with None to the union of all
\* their fields, so all its rows share that one field set.
C11_HandedBatchUniform ==
    (Flushed /\ pad_data) =>
        /\ IsPaddingOf(last.handed, last.pending)
        /\ SameFields(last.handed)
        /\ last.ok => (store # <<>> /\ store[Len(store)] = last.handed)

\* batch size 3 and three inserts, a field carried by the second row only
C11_Witness ==
    /\ pad_data /\ batch_size = 3 /\ flushCalls = 0 /\ ~storeFailed
    /\ submitted = <<("a" :> "1"), ("a" :> None @@ "b" :> "1"), ("a" :> "1")>>
    /\ store = << <<("a" :> "1" @@ "b" :> None),
                    ("a" :> None @@ "b" :> "1"),
                    ("a" :> "1" @@ "b" :> None)>> >>
    /\ rows = <<>>

\* C12: the store is written only by a flush the caller calls or by an insert
\* that brings the buffer to batch_size rows: an insert that leaves fewer
\* than batch_size rows pending writes nothing.
C12_NoImplicitFlush ==
    [][store' # store =>
          \/ flushCalls' = flushCalls + 1
          \/ (Len(submitted') = Len(submitted) + 1 /\ Len(rows) + 1 >= batch_size)]_vars

C12_Witness ==
    /\ batch_size = 3 /\ Len(rows) = 2 /\ Len(submitted) = 2
    /\ store = <<>> /\ flushCalls = 0
    /\ last.op = "insert" /\ last.bulk = 0 /\ last.txns = 0

\* C13: an insert that returned without flushing leaves at most batch_size - 1
\* rows; an insert that ends with batch_size or more rows buffered has run a
\* flush, also when an earlier failure had left that many rows.
C13_BufferBound ==
    last.op = "insert" =>
        /\ (last.ok /\ ~last.auto) => Len(rows) <= batch_size - 1
        /\ Len(rows) >= batch_size => (last.auto /\ last.bulk = 1)

C13_Witness ==
    /\ batch_size >= 1 /\ last.op = "insert" /\ last.auto /\ ~last.ok
    /\ Len(last.rowsBefore) >= batch_size /\ Len(rows) > batch_size

\* C14: a flush makes one bulk insert in one atomic scope, and the call
\* returns exactly when that bulk insert was committed; when the store failed
\* the call raises, with nothing committed and no second attempt.
C14_FailureSurfaced ==
    Flushed =>
        /\ last.bulk = 1 /\ last.txns = 1
        /\ last.ok <=> store = Append(last.storeBefore, last.handed)
        /\ ~last.ok => (storeFailed /\ store = last.storeBefore)

C14_Witness ==
    /\ last.op = "insert" /\ last.auto /\ ~last.ok /\ last.bulk = 1
    /\ prev.op = "flush" /\ ~prev.ok /\ store = <<>> /\ SameFields(rows)

\* C15: _pad_data leaves a batch whose rows share one field set as it is, and
\* a second _pad_data leaves the result of the first as it is.
C15_PadIdempotent ==
    last.op = "_pad_data" =>
        /\ SameFields(last.rowsBefore) => rows = last.rowsBefore
        /\ prev.op = "_pad_data" => rows = last.rowsBefore

C15_Witness ==
    /\ prev.op = "_pad_data" /\ last.op = "_pad_data"
    /\ Len(submitted) = 3 /\ ~SameFields(submitted)
    /\ rows # submitted /\ rows = last.rowsBefore

\* C16: without normalization flush gives the store the buffered rows as they
\* are; when their field sets differ the bulk insert is attempted, the call
\* raises, nothing is committed and the rows stay buffered.
C16_ShapeErrorSurfaced ==
    (Flushed /\ ~pad_data) =>
        /\ last.handed = last.pending
        /\ ~SameFields(last.pending) =>
              /\ last.bulk = 1 /\ ~last.ok
              /\ store = last.storeBefore
              /\ rows = last.pending

C16_Witness ==
    /\ ~pad_data /\ last.op = "flush" /\ ~last.ok
    /\ Len(last.pending) = 2 /\ ~SameFields(last.pending)
    /\ rows = last.pending /\ store = <<>>

\* C19: each committed batch holds its rows in the order they were submitted:
\* the committed batches, oldest first, are the first submitted rows in their
\* order, and the buffer is the rest of the submitted rows in their order
\* (rows compared up to the None padding; equal outright without padding).
C19_Fifo ==
    LET n == Len(Flat(store))
    IN  /\ n <= Len(submitted)
        /\ AgreesAll(SubSeq(submitted, 1, n), Flat(store))
        /\ AgreesAll(SubSeq(submitted, n + 1, Len(submitted)), rows)
        /\ ~pad_data => Flat(store) \o rows = submitted
        /\ (Flushed /\ last.ok) =>
              AgreesAll(SubSeq(submitted, n - Len(last.handed) + 1, n), last.handed)

C19_Witness ==
    /\ Len(store) = 2 /\ Len(store[1]) = 2 /\ Len(store[2]) = 1
    /\ rows = <<>> /\ Len(submitted) = 3
    /\ submitted[1] # submitted[2] /\ submitted[2] # submitted[3]
    /\ pad_data /\ ~SameFields(SubSeq(submitted, 1, 2))

\* the batch of the last call's bulk insert is larger than batch_size
OversizedBulk(call) ==
    /\ call.op = "flush" \/ (call.op = "insert" /\ call.auto)
    /\ Len(call.handed) > batch_size

\* C20: for batch size B >= 1, until a store failure or a flush call by the
\* caller, every bulk insert has exactly B rows; and a bulk insert of more than
\* B rows is made only when a flush called by insert has failed before and B or
\* more rows were buffered.
C20_BatchesOfB ==
    /\ [](batch_size >= 1 =>
            /\ (~storeFailed /\ flushCalls = 0) =>
                  \A k \in 1..Len(store) : Len(store[k]) = batch_size
            /\ (Flushed /\ ~autoFailed /\ flushCalls = 0) =>
                  Len(last.handed) = batch_size)
    /\ [][(batch_size >= 1 /\ OversizedBulk(last')) =>
             (autoFailed /\ Len(rows) >= batch_size)]_vars

C20_Witness ==
    /\ batch_size = 2 /\ last.op = "insert" /\ last.auto
    /\ Len(last.handed) = 3 /\ Len(last.rowsBefore) = 2
    /\ autoFailed /\ flushCalls = 0

\* no caller is inside a call
AllIdle == \A c \in Callers : pc[c].at = "idle"

\* C18: when the two callers lock around every call, between calls every
\* submitted row is in the buffer or in the store, once.  (Without the lock
\* the witness is reached: a row that is in neither.)
C18_LockedCallsKeepRows ==
    (locking /\ AllIdle) => AgreesAll(submitted, Flat(store) \o rows)

\* without the lock, a row appended between another caller's bulk insert and
\* its buffer clear is in neither the buffer nor the store
C18_Witness ==
    /\ ~locking /\ AllIdle /\ ~storeFailed
    /\ Len(Flat(store)) + Len(rows) < Len(submitted)

\* without the lock, two bulk inserts read the same buffer: rows committed twice
C18_CommittedTwice ==
    /\ ~locking /\ AllIdle /\ ~storeFailed
    /\ Len(Flat(store)) > Len(submitted)

\* the committed rows of inserter j, oldest first
RECURSIVE RowsOf(_, _)
RowsOf(j, flat) ==
    IF flat = <<>> THEN <<>>
    ELSE LET x == flat[Len(flat)]
             before == RowsOf(j, SubSeq(flat, 1, Len(flat) - 1))
         IN  IF x.by = j THEN Append(before, x.row) ELSE before

\* C17: with two inserters on the one store, each inserter's submitted rows
\* are in its own buffer or committed for it, once; a call on one inserter
\* leaves the other's buffer and committed rows as they were, and a failed
\* flush commits nothing.
C17_InstancesIsolated ==
    /\ [](\A j \in Instances :
             AgreesAll(submitted[j], RowsOf(j, Flat(store)) \o rows[j]))
    /\ [][/\ \A j \in Instances \ {last'.inst} :
                /\ rows'[j] = rows[j]
                /\ RowsOf(j, Flat(store')) = RowsOf(j, Flat(store))
          /\ ~last'.ok => store' = store]_vars

C17_Witness ==
    /\ last.inst = 2 /\ ~last.ok /\ last.written >= 1
    /\ Len(rows[2]) = 2 /\ rows[1] = <<>>
    /\ RowsOf(1, Flat(store)) = submitted[1] /\ Len(submitted[1]) = 1

\* the n most recently submitted rows, as they were submitted
LastSubmitted(n) == SubSeq(submitted, Len(submitted) - n + 1, Len(submitted))

\* C21: with normalization, a failed flush leaves in the buffer the padded
\* batch it gave to the store: as many rows as were submitted and not yet
\* committed, in their order, each with the values it was submitted with and
\* None in every added field; and a flush that then succeeds commits that.
C21_RetainedRowsPadded ==
    (Flushed /\ pad_data) =>
        /\ ~last.ok =>
              /\ rows = last.handed
              /\ Len(rows) <= Len(submitted)
              /\ IsPaddingOf(rows, LastSubmitted(Len(rows)))
        /\ (last.ok /\ ~prev.ok) =>
              /\ store # <<>> /\ store[Len(store)] = last.handed
              /\ Len(last.handed) <= Len(submitted)
              /\ IsPaddingOf(last.handed, LastSubmitted(Len(last.handed)))
              /\ last.op = "flush" => last.handed = last.rowsBefore

\* a flush failed on two rows of different fields, and the retry committed
\* them padded, the submitted "1" still in place
C21_Witness ==
    /\ pad_data /\ prev.op = "flush" /\ ~prev.ok
    /\ last.op = "flush" /\ last.ok /\ rows = <<>>
    /\ submitted = <<("a" :> "1"), ("b" :> None)>>
    /\ last.rowsBefore = <<("a" :> "1" @@ "b" :> None), ("a" :> None @@ "b" :> None)>>
    /\ store = <<last.rowsBefore>>

TypeOK ==
    /\ rows \in Seq(Rows)
    /\ batch_size \in BatchSizes
    /\ pad_data \in BOOLEAN
    /\ Len(submitted) <= MaxSubmit
    /\ autoFlushes \in 0..MaxSubmit
====
